---- MODULE Spec2Model ----
(***************************************************************************)
(* Static memory-pool optimisation of onnx-mlir                            *)
(* (src/Transform/OptimizeMemoryPools.cpp): the slot-merge rewrite         *)
(* KrnlOptimizeStaticMemoryPools and the pool-compaction rewrite           *)
(* KrnlCompactStaticMemoryPools, together with the analyses they call.     *)
(*                                                                         *)
(* A program is the top-level block of one function:                       *)
(*   slots    the krnl.getref operations in block (walk) order; slot s is  *)
(*            a record [pool, offset, fp]: the alloc its first operand is  *)
(*            (0 when that operand is not the result of an alloc of the    *)
(*            block), the constant its offset operand holds, and the byte  *)
(*            size of its result (getMemRefSizeInBytes).  Offsets are      *)
(*            compared by their constant: the greedy driver uniques        *)
(*            constants, so equal constants are one Value.                 *)
(*   poolSize the byte size of each alloc (memPoolShape[0]).               *)
(*   ops      the loads, stores and other operations in walk order; op i   *)
(*            is [kind, ref, args, nest]: ref is the slot a load or store  *)
(*            addresses (0: a memref that is a function argument), args    *)
(*            the operations defining its value operands (0: a block       *)
(*            argument), nest the outermost krnl.iterate around it (0: the *)
(*            operation sits in the top-level block).                      *)
(*   last     what the most recent rule application did, or the            *)
(*            arguments and the return value of the analysis called.       *)
(*                                                                         *)
(* Spec applies the two rewrites to a program.  LiveRangeSpec, UsesSpec    *)
(* and TotalSizeSpec call checkLiveRangesIntersect,                        *)
(* getRefUsesAreMutuallyDisjoint and getAllocGetRefTotalSize on their own. *)
(* All shapes are constant, every pool is a rank-1 byte buffer and every   *)
(* getref sits in the top-level block, so the rules' type guards pass.     *)
(***************************************************************************)
EXTENDS Integers, Sequences, FiniteSets, TLC

NumSlots == 3
NumPools == 2
MaxFootprint == 2
MaxPad == 1
NumLoops == 1
NumValues == 2
NumStores == 1

VARIABLES slots, poolSize, ops, last

vars == <<slots, poolSize, ops, last>>

Slots == 1..NumSlots
Pools == 1..NumPools

(***************************************************************************)
(* IR query layer                                                          *)
(***************************************************************************)

\* The getrefs of the block in walk order.
AllGetRefs == [i \in 1..Len(slots) |-> i]

\* Alloc a getref's first operand resolves to; 0 is the null AllocOp.
getAllocOfGetRef(g) == slots[g].pool

\* Number of getrefs whose first operand is the alloc.
getAllocGetRefNum(p) == Cardinality({g \in 1..Len(slots) : slots[g].pool = p})

RECURSIVE TotalSizeWalk(_, _, _, _)
TotalSizeWalk(p, i, seen, total) ==
  IF i > Len(slots) THEN total
  ELSE IF \E k \in 1..Len(seen) : slots[i].offset = slots[seen[k]].offset
       THEN TotalSizeWalk(p, i + 1, seen, total)
       ELSE TotalSizeWalk(p, i + 1, Append(seen, i),
                          IF slots[i].pool = p THEN total + slots[i].fp ELSE total)

\* Bytes the getrefs of a pool use: a getref is skipped when a getref seen
\* earlier in the walk has its offset; every getref not skipped is recorded
\* as seen, whichever pool it belongs to.
getAllocGetRefTotalSize(p) == TotalSizeWalk(p, 1, <<>>, 0)

RECURSIVE DistinctWalk(_, _, _)
DistinctWalk(p, i, getRefs) ==
  IF i > Len(slots) THEN getRefs
  ELSE IF \E k \in 1..Len(getRefs) :
            /\ slots[i].pool = slots[getRefs[k]].pool
            /\ slots[i].offset = slots[i].offset
       THEN DistinctWalk(p, i + 1, getRefs)
       ELSE DistinctWalk(p, i + 1,
                         IF slots[i].pool = p THEN Append(getRefs, i) ELSE getRefs)

\* The "distinct" getrefs of a pool; the skip test compares the walked
\* getref's offset with itself.
getAllDistinctGetRefsForAlloc(p) == DistinctWalk(p, 1, <<>>)

\* The getrefs with the pool operand and the offset of g, in walk order.
getAllGetRefWithSameOffset(g) ==
  SelectSeq(AllGetRefs, LAMBDA s : /\ slots[s].pool = slots[g].pool
                                   /\ slots[s].offset = slots[g].offset)

InList(x, list) == \E k \in 1..Len(list) : list[k] = x

(***************************************************************************)
(* Dependency / disjointness analysis                                      *)
(***************************************************************************)

AllOps == [i \in 1..Len(ops) |-> i]

isLoad(i) == i # 0 /\ ops[i].kind = "load"

isStore(i) == i # 0 /\ ops[i].kind = "store"

\* Value 0 stands for an argument of the function's entry block.
isBlockArgument(v) == v = 0

\* The stores of the block that have the getref among their operands.
getGetRefStores(g) == SelectSeq(AllOps, LAMBDA i : isStore(i) /\ ops[i].ref = g)

RECURSIVE DependencyWalk(_, _, _)
\* The work queue of one store: TRUE when no load reached through the
\* operands of non-load operations reads a getref of firstGetRefList.
DependencyWalk(operandList, dependentOps, firstGetRefList) ==
  IF Len(operandList) = 0 THEN TRUE
  ELSE LET definingOperation == Head(operandList)
           rest == Tail(operandList)
       IN IF definingOperation # 0 /\ definingOperation \notin dependentOps
          THEN IF isLoad(definingOperation)
               THEN IF /\ ~isBlockArgument(ops[definingOperation].ref)
                       /\ InList(ops[definingOperation].ref, firstGetRefList)
                    THEN FALSE
                    ELSE DependencyWalk(rest, dependentOps \cup {definingOperation},
                                        firstGetRefList)
               ELSE DependencyWalk(
                      rest \o SelectSeq(ops[definingOperation].args,
                                        LAMBDA v : ~isBlockArgument(v)),
                      dependentOps \cup {definingOperation}, firstGetRefList)
          ELSE DependencyWalk(rest, dependentOps, firstGetRefList)

getRefUsesAreDisjoint(firstGetRefList, secondGetRef) ==
  LET allStores == getGetRefStores(secondGetRef)
  IN \A k \in 1..Len(allStores) :
       DependencyWalk(<<ops[allStores[k]].args[1]>>, {}, firstGetRefList)

\* Mutation: only the stores into the second list are examined.
getRefUsesAreMutuallyDisjointOneWay(firstGetRefList, secondGetRefList) ==
  \A k \in 1..Len(secondGetRefList) :
    getRefUsesAreDisjoint(firstGetRefList, secondGetRefList[k])

getRefUsesAreMutuallyDisjoint(firstGetRefList, secondGetRefList) ==
  /\ \A k \in 1..Len(secondGetRefList) :
       getRefUsesAreDisjoint(firstGetRefList, secondGetRefList[k])
  /\ \A k \in 1..Len(firstGetRefList) :
       getRefUsesAreDisjoint(secondGetRefList, firstGetRefList[k])

RECURSIVE DependencyVisits(_, _, _, _)
\* The same work queue, returning the defining operations it processed, in
\* the order it processed them.
DependencyVisits(operandList, dependentOps, firstGetRefList, processed) ==
  IF Len(operandList) = 0 THEN processed
  ELSE LET definingOperation == Head(operandList)
           rest == Tail(operandList)
       IN IF definingOperation # 0 /\ definingOperation \notin dependentOps
          THEN IF isLoad(definingOperation)
               THEN IF /\ ~isBlockArgument(ops[definingOperation].ref)
                       /\ InList(ops[definingOperation].ref, firstGetRefList)
                    THEN Append(processed, definingOperation)
                    ELSE DependencyVisits(rest,
                                          dependentOps \cup {definingOperation},
                                          firstGetRefList,
                                          Append(processed, definingOperation))
               ELSE DependencyVisits(
                      rest \o SelectSeq(ops[definingOperation].args,
                                        LAMBDA v : ~isBlockArgument(v)),
                      dependentOps \cup {definingOperation}, firstGetRefList,
                      Append(processed, definingOperation))
          ELSE DependencyVisits(rest, dependentOps, firstGetRefList, processed)

(***************************************************************************)
(* Live-range analysis                                                     *)
(***************************************************************************)

isLoadStoreForGetRef(g, i) == (isLoad(i) \/ isStore(i)) /\ ops[i].ref = g

LoadStoresOf(g) == {i \in 1..Len(ops) : isLoadStoreForGetRef(g, i)}

\* Last load/store of the getref in the walk; 0 is the null pointer.
getLiveRangeLastOp(g) ==
  LET loadStores == LoadStoresOf(g)
  IN IF loadStores = {} THEN 0
     ELSE CHOOSE i \in loadStores : \A j \in loadStores : j <= i

\* First load/store of the getref in the walk; 0 is the null pointer.
getLiveRangeFirstOp(g) ==
  LET loadStores == LoadStoresOf(g)
  IN IF loadStores = {} THEN 0
     ELSE CHOOSE i \in loadStores : \A j \in loadStores : i <= j

operationInLiveRange(operation, liveRangeOpList) == InList(operation, liveRangeOpList)

RECURSIVE LiveRangeWalk(_, _, _, _, _)
LiveRangeWalk(g, lastLoadStore, i, inRange, operations) ==
  IF i > Len(ops) THEN operations
  ELSE LET nowIn == inRange \/ isLoadStoreForGetRef(g, i)
       IN LiveRangeWalk(g, lastLoadStore, i + 1,
                        IF i = lastLoadStore THEN FALSE ELSE nowIn,
                        IF nowIn THEN Append(operations, i) ELSE operations)

\* The operations walked from the first to the last load/store of g.
getLiveRange(g) == LiveRangeWalk(g, getLiveRangeLastOp(g), 1, FALSE, <<>>)

\* FALSE only when afterOp is walked before beforeOp has been found.
opBeforeOp(beforeOp, afterOp) ==
  ~ \E i \in 1..Len(ops) : /\ i = afterOp
                           /\ i # beforeOp
                           /\ ~ \E j \in 1..(i - 1) : j = beforeOp

liveRangeIsContained(firstOp, lastOp, liveRangeOpList) ==
  /\ opBeforeOp(firstOp, liveRangeOpList[1])
  /\ opBeforeOp(liveRangeOpList[Len(liveRangeOpList)], lastOp)

opInTopLevelBlock(i) == ops[i].nest = 0

\* Outermost krnl.iterate around the operation; 0 is the null pointer.
getOutermostLoop(i) == ops[i].nest

checkOuterLoopsMatch(op1, op2) ==
  IF getOutermostLoop(op1) = 0 THEN FALSE
  ELSE IF getOutermostLoop(op2) = 0 THEN FALSE
  ELSE getOutermostLoop(op1) = getOutermostLoop(op2)

liveRangesInSameLoopNest(firstOp, lastOp, liveRangeOpList) ==
  LET firstOpInTopLevelBlock == opInTopLevelBlock(firstOp)
      lastOpInTopLevelBlock == opInTopLevelBlock(firstOp)
      liveRangeFirstOp == liveRangeOpList[1]
      liveRangeLastOp == liveRangeOpList[Len(liveRangeOpList)]
      firstLROpInTopLevelBlock == opInTopLevelBlock(liveRangeFirstOp)
      lastLROpInTopLevelBlock == opInTopLevelBlock(liveRangeLastOp)
  IN IF firstOpInTopLevelBlock /\ lastOpInTopLevelBlock THEN FALSE
     ELSE IF firstLROpInTopLevelBlock /\ lastLROpInTopLevelBlock THEN FALSE
     ELSE IF /\ ~lastOpInTopLevelBlock
             /\ ~firstLROpInTopLevelBlock
             /\ checkOuterLoopsMatch(lastOp, liveRangeFirstOp) THEN TRUE
     ELSE IF /\ ~firstOpInTopLevelBlock
             /\ ~lastLROpInTopLevelBlock
             /\ checkOuterLoopsMatch(firstOp, liveRangeLastOp) THEN TRUE
     ELSE FALSE

\* One iteration of the inner loop of checkLiveRangesIntersect.
LiveRangePairIntersects(firstGetRef, secondGetRef) ==
  LET liveRangeOpList == getLiveRange(firstGetRef)
      firstOp == getLiveRangeFirstOp(secondGetRef)
      lastOp == getLiveRangeLastOp(secondGetRef)
  IN \/ operationInLiveRange(firstOp, liveRangeOpList)
     \/ operationInLiveRange(lastOp, liveRangeOpList)
     \/ liveRangeIsContained(firstOp, lastOp, liveRangeOpList)
     \/ liveRangesInSameLoopNest(firstOp, lastOp, liveRangeOpList)

RECURSIVE LiveRangesLoop(_, _, _, _)
LiveRangesLoop(firstGetRefList, secondGetRefList, i, j) ==
  IF i > Len(firstGetRefList) THEN "false"
  ELSE IF getLiveRangeLastOp(firstGetRefList[i]) = 0 THEN "crash"
  ELSE IF j > Len(secondGetRefList)
       THEN LiveRangesLoop(firstGetRefList, secondGetRefList, i + 1, 1)
  ELSE IF getLiveRangeLastOp(secondGetRefList[j]) = 0 THEN "crash"
  ELSE IF LiveRangePairIntersects(firstGetRefList[i], secondGetRefList[j]) THEN "true"
  ELSE LiveRangesLoop(firstGetRefList, secondGetRefList, i, j + 1)

\* "true" / "false", or "crash": getLiveRangeLastOp calls dump() through the
\* null pointer it holds when a getref has no load or store, which traps.
checkLiveRangesIntersect(firstGetRefList, secondGetRefList) ==
  LiveRangesLoop(firstGetRefList, secondGetRefList, 1, 1)

(***************************************************************************)
(* Slot-merge rule: KrnlOptimizeStaticMemoryPools::matchAndRewrite         *)
(***************************************************************************)

Running == last.result \notin {"crash", "assert"}

Applied(rule, arg, result, reusers) ==
  [rule |-> rule, arg |-> arg, result |-> result, reusers |-> reusers]

\* The getrefs other than the first one that use its pool and have its
\* memory footprint, in block order.
getRefCandidates(firstGetRef) ==
  SelectSeq(AllGetRefs,
            LAMBDA c : /\ c # firstGetRef
                       /\ getAllocOfGetRef(c) = getAllocOfGetRef(firstGetRef)
                       /\ slots[firstGetRef].fp = slots[c].fp)

\* Mutation: the reusers found so far are left out of the first list.
ExtendedFirstListNoReusers(firstGetRef, validSlotReusers) ==
  getAllGetRefWithSameOffset(firstGetRef)

\* The getrefs at the first getref's slot, followed by the reusers found so
\* far that have not been emitted yet.
ExtendedFirstList(firstGetRef, validSlotReusers) ==
  getAllGetRefWithSameOffset(firstGetRef) \o validSlotReusers

\* Mutation: the live ranges are not checked.
ReuseDecisionNoLiveRange(firstGetRefList, secondGetRefList) ==
  IF ~getRefUsesAreMutuallyDisjoint(firstGetRefList, secondGetRefList) THEN "reject"
  ELSE "accept"

\* The two checks one candidate has to pass.
ReuseDecision(firstGetRefList, secondGetRefList) ==
  IF ~getRefUsesAreMutuallyDisjoint(firstGetRefList, secondGetRefList) THEN "reject"
  ELSE LET liveRangesIntersect ==
             checkLiveRangesIntersect(firstGetRefList, secondGetRefList)
       IN IF liveRangesIntersect = "crash" THEN "crash"
          ELSE IF liveRangesIntersect = "true" THEN "reject"
          ELSE "accept"

\* Mutation: only the candidate itself becomes a reuser.
AcceptedReusersOnlyCandidate(secondGetRef, secondGetRefList) == <<secondGetRef>>

\* What an accepted candidate adds to the valid slot reusers.
AcceptedReusers(secondGetRef, secondGetRefList) == secondGetRefList

RECURSIVE ReuserLoop(_, _, _, _)
\* The loop over the candidates; [crash, valid].
ReuserLoop(firstGetRef, getRefCandidates_, k, validSlotReusers) ==
  IF k > Len(getRefCandidates_) THEN [crash |-> FALSE, valid |-> validSlotReusers]
  ELSE LET secondGetRef == getRefCandidates_[k]
       IN IF InList(secondGetRef, validSlotReusers)
          THEN ReuserLoop(firstGetRef, getRefCandidates_, k + 1, validSlotReusers)
          ELSE IF slots[firstGetRef].offset = slots[secondGetRef].offset
          THEN ReuserLoop(firstGetRef, getRefCandidates_, k + 1, validSlotReusers)
          ELSE LET firstGetRefList == ExtendedFirstList(firstGetRef, validSlotReusers)
                   secondGetRefList == getAllGetRefWithSameOffset(secondGetRef)
                   decision == ReuseDecision(firstGetRefList, secondGetRefList)
               IN IF decision = "crash" THEN [crash |-> TRUE, valid |-> <<>>]
                  ELSE IF decision = "reject"
                  THEN ReuserLoop(firstGetRef, getRefCandidates_, k + 1,
                                  validSlotReusers)
                  ELSE ReuserLoop(firstGetRef, getRefCandidates_, k + 1,
                                  validSlotReusers
                                    \o AcceptedReusers(secondGetRef, secondGetRefList))

\* Every valid reuser is re-emitted on the first getref's pool and offset.
RedirectReusers(firstGetRef, validSlotReusers) ==
  [s \in 1..Len(slots) |->
     IF InList(s, validSlotReusers)
     THEN [slots[s] EXCEPT !.pool = getAllocOfGetRef(firstGetRef),
                           !.offset = slots[firstGetRef].offset]
     ELSE slots[s]]

\* What the match part of the rule decides for the getref offered:
\* "failure" (no match), "crash" (the compiler stops) or "success" with the
\* valid slot reusers.
MergeMatch(firstGetRef) ==
  LET staticMemPool == getAllocOfGetRef(firstGetRef)
  IN IF staticMemPool = 0
     THEN \* staticMemPool.getResult() on the null AllocOp
          [result |-> "crash", valid |-> <<>>]
     ELSE IF getAllocGetRefNum(staticMemPool) < 2
     THEN [result |-> "failure", valid |-> <<>>]
     ELSE IF Len(getRefCandidates(firstGetRef)) < 1
     THEN [result |-> "failure", valid |-> <<>>]
     ELSE LET r == ReuserLoop(firstGetRef, getRefCandidates(firstGetRef), 1, <<>>)
          IN IF r.crash THEN [result |-> "crash", valid |-> <<>>]
             ELSE IF Len(r.valid) = 0 THEN [result |-> "failure", valid |-> <<>>]
             ELSE [result |-> "success", valid |-> r.valid]

\* One application of the rule to a getref.  No match leaves the program as
\* it is.
KrnlOptimizeStaticMemoryPools(firstGetRef) ==
  /\ Running
  /\ LET m == MergeMatch(firstGetRef)
     IN IF m.result = "success"
        THEN /\ slots' = RedirectReusers(firstGetRef, m.valid)
             /\ last' = Applied("merge", firstGetRef, "success", m.valid)
             /\ UNCHANGED <<poolSize, ops>>
        ELSE IF m.result = "crash"
        THEN /\ last' = Applied("merge", firstGetRef, "crash", <<>>)
             /\ UNCHANGED <<slots, poolSize, ops>>
        ELSE UNCHANGED vars

(***************************************************************************)
(* Pool-compaction rule: KrnlCompactStaticMemoryPools::matchAndRewrite     *)
(***************************************************************************)

\* Mutation: the pool is rewritten even when it has the size in use.
CompactionRequiredAlways(p, usedMemory) == TRUE

\* Changes to the memory pool are required.
CompactionRequired(p, usedMemory) == poolSize[p] # usedMemory

RECURSIVE CompactLoop(_, _, _, _)
\* The loop over the distinct getrefs: oldToNewGetRef as the new offset of
\* every getref re-emitted (-1: not in the map); std::map::insert keeps the
\* entry a key already has.
CompactLoop(distinctGetRefs, k, currentOffset, oldToNewGetRef) ==
  IF k > Len(distinctGetRefs) THEN oldToNewGetRef
  ELSE LET getRefOp == distinctGetRefs[k]
           sameSlotGetRefs == getAllGetRefWithSameOffset(getRefOp)
       IN CompactLoop(distinctGetRefs, k + 1, currentOffset + slots[getRefOp].fp,
                      [s \in 1..Len(slots) |->
                         IF oldToNewGetRef[s] = -1 /\ InList(s, sameSlotGetRefs)
                         THEN currentOffset
                         ELSE oldToNewGetRef[s]])

\* The getrefs of the map are replaced by their new getref; replacing the
\* alloc rebinds every other use of the old pool to the new one (the model
\* keeps the pool's number and changes its size).
ReplaceGetRefs(p, oldToNewGetRef) ==
  [s \in 1..Len(slots) |->
     IF oldToNewGetRef[s] # -1
     THEN [slots[s] EXCEPT !.pool = p, !.offset = oldToNewGetRef[s]]
     ELSE slots[s]]

\* What the match part of the rule decides for the alloc offered: "failure"
\* (no match), "assert" (the assertion on the used memory fails and the
\* compiler stops) or "success".
CompactMatch(p) ==
  IF getAllocGetRefNum(p) < 1 THEN "failure"
  ELSE LET usedMemory == getAllocGetRefTotalSize(p)
       IN IF ~(usedMemory <= poolSize[p]) THEN "assert"
          ELSE IF ~CompactionRequired(p, usedMemory) THEN "failure"
          ELSE "success"

\* One application of the rule to an alloc.  No match leaves the program as
\* it is.
KrnlCompactStaticMemoryPools(p) ==
  /\ Running
  /\ LET m == CompactMatch(p)
     IN IF m = "success"
        THEN /\ slots' = ReplaceGetRefs(p,
                           CompactLoop(getAllDistinctGetRefsForAlloc(p), 1, 0,
                                       [s \in 1..Len(slots) |-> -1]))
             /\ poolSize' = [poolSize EXCEPT ![p] = getAllocGetRefTotalSize(p)]
             /\ last' = Applied("compact", p, "success", <<>>)
             /\ UNCHANGED ops
        ELSE IF m = "assert"
        THEN /\ last' = Applied("compact", p, "assert", <<>>)
             /\ UNCHANGED <<slots, poolSize, ops>>
        ELSE UNCHANGED vars

(***************************************************************************)
(* Programs offered to the pass                                            *)
(***************************************************************************)

\* Statement k of a program reads memref src[k], computes, and stores the
\* result into memref dst[k], inside loop nest[k]:
\*   load src ; other(load, block argument) ; store other -> dst
Statements == 1..(NumSlots + 1)

ProgramOps(src, dst, nest) ==
  [i \in 1..(3 * (NumSlots + 1)) |->
     LET k == ((i - 1) \div 3) + 1
         part == (i - 1) % 3
     IN IF part = 0 THEN [kind |-> "load", ref |-> src[k], args |-> <<>>,
                          nest |-> nest[k]]
        ELSE IF part = 1 THEN [kind |-> "other", ref |-> 0, args |-> <<i - 1, 0>>,
                               nest |-> nest[k]]
        ELSE [kind |-> "store", ref |-> dst[k], args |-> <<i - 1>>,
              nest |-> nest[k]]]

\* The statements of one krnl.iterate are adjacent.
LoopsAreContiguous(nest) ==
  \A i, j, k \in Statements :
    (i < j /\ j < k /\ nest[i] # 0 /\ nest[i] = nest[k]) => nest[j] = nest[i]

\* Statement k writes slot k, except statement skip and the last one, which
\* write a function argument (skip = 0: every slot is written).
WrittenSlots(skip) ==
  [k \in Statements |-> IF k <= NumSlots /\ k # skip THEN k ELSE 0]

RECURSIVE PoolEnd(_, _, _, _, _)
\* Bytes of pool p laid out by the getrefs before getref s.
PoolEnd(p, s, pool, fp, share) ==
  IF s <= 1 THEN 0
  ELSE PoolEnd(p, s - 1, pool, fp, share)
       + (IF pool[s - 1] = p
             /\ ~(share[s - 1] /\ \E t \in 1..(s - 2) : pool[t] = p /\ fp[t] = fp[s - 1])
          THEN fp[s - 1] ELSE 0)

RECURSIVE LayoutOffset(_, _, _, _)
\* A getref shares the slot of the latest earlier getref of its pool that has
\* its footprint when share says so, and else gets the next free bytes.
LayoutOffset(s, pool, fp, share) ==
  LET earlier == {t \in 1..(s - 1) : pool[t] = pool[s] /\ fp[t] = fp[s]}
  IN IF share[s] /\ earlier # {}
     THEN LayoutOffset(CHOOSE t \in earlier : \A u \in earlier : u <= t,
                       pool, fp, share)
     ELSE PoolEnd(pool[s], s, pool, fp, share)

Layout(pool, fp, share) ==
  [s \in Slots |-> [pool |-> pool[s], offset |-> LayoutOffset(s, pool, fp, share),
                    fp |-> fp[s]]]

Mirror(f) == [s \in Slots |-> f[NumSlots + 1 - s]]

\* The same layout with the offsets handed out from the last getref of the
\* block to the first.
MirroredLayout(pool, fp, share) == Mirror(Layout(pool, fp, share))

LayoutSizes(pool, fp, share, pad) ==
  [p \in Pools |-> PoolEnd(p, NumSlots + 1, pool, fp, share) + pad[p]]

\* Any layout of the slots over the pools (the pools numbered in the order
\* the layout first uses them), every slot of 1 or of MaxFootprint bytes,
\* every pool exactly as large as its slots need or MaxPad bytes larger,
\* under the straight-line program in which statement k stores a value
\* computed from a function argument into slot k.
InitLayouts ==
  \E pool \in [Slots -> 0..NumPools], fp \in [Slots -> {1, MaxFootprint}],
     share \in [Slots -> BOOLEAN], pad \in {0, MaxPad}, mirrored \in BOOLEAN :
    /\ \A s \in Slots :
         /\ share[s] => \E t \in 1..(s - 1) : pool[t] = pool[s] /\ fp[t] = fp[s]
         /\ pool[s] > 1 => \E t \in 1..(s - 1) : pool[t] = pool[s] - 1
    /\ slots = IF mirrored THEN MirroredLayout(pool, fp, share)
               ELSE Layout(pool, fp, share)
    /\ poolSize = LayoutSizes(pool, fp, share, [p \in Pools |-> pad])
    /\ ops = ProgramOps([k \in Statements |-> 0], WrittenSlots(0),
                        [k \in Statements |-> 0])

\* Any program in which statement k reads a function argument or one of the
\* two slots before slot k (the loops numbered in the order the program
\* enters them), over equal slots laid out one after the other in one pool.
Programs(skips) ==
  \E src \in {f \in [Statements -> 0..NumSlots] :
                \A k \in Statements : f[k] < k /\ (f[k] = 0 \/ f[k] >= k - 2)},
     nest \in {f \in [Statements -> 0..NumLoops] :
                 /\ LoopsAreContiguous(f)
                 /\ \A k \in Statements :
                      f[k] > 1 => \E j \in 1..(k - 1) : f[j] = f[k] - 1},
     skip \in skips :
    /\ slots = Layout([s \in Slots |-> 1], [s \in Slots |-> 1],
                      [s \in Slots |-> FALSE])
    /\ poolSize = LayoutSizes([s \in Slots |-> 1], [s \in Slots |-> 1],
                              [s \in Slots |-> FALSE], [p \in Pools |-> 0])
    /\ ops = ProgramOps(src, WrittenSlots(skip), nest)

\* The programs in which every slot is written or the last one is not.
InitPrograms == Programs({0, NumSlots})

Init ==
  /\ last = Applied("none", 0, "none", <<>>)
  /\ (InitLayouts \/ InitPrograms)

Next ==
  \/ \E firstGetRef \in 1..Len(slots) : KrnlOptimizeStaticMemoryPools(firstGetRef)
  \/ \E p \in Pools : KrnlCompactStaticMemoryPools(p)

Spec == Init /\ [][Next]_vars

(***************************************************************************)
(* The analyses of the merge rule, applied on their own                    *)
(***************************************************************************)

\* The getref lists the rule hands to its analyses: the getrefs of a
\* non-empty set, in block order.
GetRefLists ==
  {SelectSeq(AllGetRefs, LAMBDA s : s \in S) : S \in (SUBSET Slots) \ {{}}}

\* Two lists without a common getref.
GetRefListPairs ==
  {pair \in GetRefLists \X GetRefLists :
     \A i \in 1..Len(pair[1]), j \in 1..Len(pair[2]) : pair[1][i] # pair[2][j]}

\* Any program of the family above, with any one slot (or none) left without
\* load and store.
InitLiveRanges ==
  /\ last = Applied("none", 0, "none", <<>>)
  /\ Programs(0..NumSlots)

\* The call of checkLiveRangesIntersect on two getref lists; last records
\* the lists and what the call returns ("crash": it does not return).
ApplyCheckLiveRangesIntersect(firstGetRefList, secondGetRefList) ==
  /\ last.rule = "none"
  /\ last' = Applied("checkLiveRangesIntersect",
                     <<firstGetRefList, secondGetRefList>>,
                     checkLiveRangesIntersect(firstGetRefList, secondGetRefList),
                     <<>>)
  /\ UNCHANGED <<slots, poolSize, ops>>

NextLiveRanges ==
  \E pair \in GetRefListPairs : ApplyCheckLiveRangesIntersect(pair[1], pair[2])

LiveRangeSpec == InitLiveRanges /\ [][NextLiveRanges]_vars

\* Value operation i of a program of values and stores: a load from a getref
\* or from a function argument (ref 0), indexed by a block argument or by
\* the value before it, or an operation on two values computed before it (0:
\* a block argument).
ValueChoices(i) ==
  {[kind |-> "load", ref |-> r, args |-> <<a>>, nest |-> 0] :
     r \in 0..NumSlots, a \in {0, i - 1}}
  \cup
  {[kind |-> "other", ref |-> 0, args |-> <<pair[1], pair[2]>>, nest |-> 0] :
     pair \in {q \in (0..(i - 1)) \X (0..(i - 1)) : q[1] <= q[2]}}

RECURSIVE ValueOps(_)
\* The sequences of n value operations.
ValueOps(n) ==
  IF n = 0 THEN {<<>>}
  ELSE {Append(p, c) : p \in ValueOps(n - 1), c \in ValueChoices(n)}

\* A store of one of the values into a getref.
StoreChoices ==
  {[kind |-> "store", ref |-> r, args |-> <<v>>, nest |-> 0] :
     r \in Slots, v \in 1..NumValues}

RECURSIVE StoreOps(_)
\* The sequences of n stores.
StoreOps(n) ==
  IF n = 0 THEN {<<>>}
  ELSE {Append(p, c) : p \in StoreOps(n - 1), c \in StoreChoices}

\* Getrefs and stores are interchangeable: the getrefs are numbered in the
\* order the program first uses them, the stores are listed by getref and
\* value.
IsCanonical(program) ==
  /\ \A i \in 1..Len(program) :
       program[i].ref > 1 =>
         \E j \in 1..(i - 1) : program[j].ref = program[i].ref - 1
  /\ \A i \in (NumValues + 1)..(Len(program) - 1) :
       \/ program[i].ref < program[i + 1].ref
       \/ /\ program[i].ref = program[i + 1].ref
          /\ program[i].args[1] <= program[i + 1].args[1]

\* Any program of NumValues value operations followed by NumStores stores,
\* over equal slots laid out one after the other in one pool.
InitUses ==
  /\ last = Applied("none", 0, "none", <<>>)
  /\ \E values \in ValueOps(NumValues), stores \in StoreOps(NumStores) :
       /\ IsCanonical(values \o stores)
       /\ ops = values \o stores
  /\ slots = Layout([s \in Slots |-> 1], [s \in Slots |-> 1],
                    [s \in Slots |-> FALSE])
  /\ poolSize = LayoutSizes([s \in Slots |-> 1], [s \in Slots |-> 1],
                            [s \in Slots |-> FALSE], [p \in Pools |-> 0])

\* The call of getRefUsesAreMutuallyDisjoint on two getref lists; last
\* records the lists and what the call returns.
ApplyGetRefUsesAreMutuallyDisjoint(firstGetRefList, secondGetRefList) ==
  /\ last.rule = "none"
  /\ last' = Applied("getRefUsesAreMutuallyDisjoint",
                     <<firstGetRefList, secondGetRefList>>,
                     IF getRefUsesAreMutuallyDisjoint(firstGetRefList,
                                                      secondGetRefList)
                     THEN "true" ELSE "false",
                     <<>>)
  /\ UNCHANGED <<slots, poolSize, ops>>

NextUses ==
  \E pair \in GetRefListPairs :
    ApplyGetRefUsesAreMutuallyDisjoint(pair[1], pair[2])

UsesSpec == InitUses /\ [][NextUses]_vars

\* Any layout of the slots over the pools.
InitTotalSize ==
  /\ last = Applied("none", 0, "none", <<>>)
  /\ InitLayouts

\* The call of getAllocGetRefTotalSize on a pool; last records the pool and
\* the number of bytes the call returns.
ApplyGetAllocGetRefTotalSize(p) ==
  /\ last.rule = "none"
  /\ last' = Applied("getAllocGetRefTotalSize", p, getAllocGetRefTotalSize(p),
                     <<>>)
  /\ UNCHANGED <<slots, poolSize, ops>>

NextTotalSize == \E p \in Pools : ApplyGetAllocGetRefTotalSize(p)

TotalSizeSpec == InitTotalSize /\ [][NextTotalSize]_vars

(***************************************************************************)
(* Vocabulary of the properties                                            *)
(***************************************************************************)

RECURSIVE SumOver(_, _)
SumOver(S, f) ==
  IF S = {} THEN 0
  ELSE LET x == CHOOSE y \in S : TRUE IN f[x] + SumOver(S \ {x}, f)

Min(S) == CHOOSE x \in S : \A y \in S : x <= y

SetToSeq(S) == SelectSeq(AllGetRefs, LAMBDA s : s \in S)

\* Every getref is bound to an alloc of the block.
WellFormed == \A s \in 1..Len(slots) : slots[s].pool # 0

CoLocated(a, b) == slots[a].pool = slots[b].pool /\ slots[a].offset = slots[b].offset

\* The co-located group of a getref.
Group(c) == {s \in 1..Len(slots) : CoLocated(s, c)}

SlotsOf(p) == {s \in 1..Len(slots) : slots[s].pool = p}

\* One representative (the first in the block) per distinct offset of a pool.
Representatives(p) == {s \in SlotsOf(p) : s = Min(Group(s))}

\* Sum of the footprints over the distinct slot groups of a pool.
GroupBytes(p) == SumOver(Representatives(p), [s \in 1..Len(slots) |-> slots[s].fp])

\* Number of distinct (pool, offset) pairs of the program.
DistinctPairs == Cardinality({<<slots[s].pool, slots[s].offset>> : s \in 1..Len(slots)})

TotalPoolBytes == SumOver(Pools, poolSize)

\* A getref with no load and no store.
Unused(s) == LoadStoresOf(s) = {}

\* The getrefs a step re-emits at another place.
Moved == {s \in 1..Len(slots) : slots'[s] # slots[s]}

\* The step is an application of the merge rule to f that matched or
\* stopped the compiler (an application without match leaves vars as it is).
MergeStep(f) == vars' # vars /\ last'.rule = "merge" /\ last'.arg = f

\* The same for the compaction rule and pool p.
CompactStep(p) == vars' # vars /\ last'.rule = "compact" /\ last'.arg = p

\* Candidates of a merge with first getref f whose offset differs from f's.
CandidateSet(f) ==
  {c \in 1..Len(slots) : /\ c # f
                         /\ slots[c].pool = slots[f].pool
                         /\ slots[c].fp = slots[f].fp
                         /\ slots[c].offset # slots[f].offset}

\* The candidate with which the loop first meets the group of c.
Trigger(f, c) == Min(Group(c) \cap CandidateSet(f))

\* The getrefs of the groups the step redirects that the loop met before c.
AcceptedBefore(f, c) ==
  {s \in Moved : \E d \in CandidateSet(f) : d \in Group(s) /\ d < c /\ c \notin Group(s)}

\* Both checks pass for the group of candidate c against the first getref's
\* group extended with the groups accepted before it.
MayShare(f, c) ==
  LET firstGetRefList == SetToSeq(Group(f) \cup AcceptedBefore(f, c))
      secondGetRefList == SetToSeq(Group(c))
  IN /\ getRefUsesAreMutuallyDisjoint(firstGetRefList, secondGetRefList)
     /\ checkLiveRangesIntersect(firstGetRefList, secondGetRefList) = "false"

(***************************************************************************)
(* Properties                                                              *)
(***************************************************************************)

C2_OffsetInsidePool ==
  WellFormed =>
    \A s \in 1..Len(slots) :
      slots[s].offset >= 0 /\ slots[s].offset < poolSize[slots[s].pool]

\* The compaction rule matches pool p.
CompactionFires(p) == CompactMatch(p) = "success"

\* C3: after a successful compaction of pool p the pool's size is the sum of
\* the footprints over its distinct slot groups, and the compaction rule no
\* longer matches the pool.
C3_CompactionExactAndIdempotent ==
  (WellFormed /\ last.rule = "compact" /\ last.result = "success") =>
    /\ poolSize[last.arg] = GroupBytes(last.arg)
    /\ ~CompactionFires(last.arg)

\* Offset the running sums give the group of s: the footprints of the groups
\* of pool p first met before it.
RunningOffset(p, s) ==
  SumOver({r \in Representatives(p) : r < Min(Group(s))},
          [r \in 1..Len(slots) |-> slots[r].fp])

\* C4: a successful compaction of pool p re-emits every getref of the pool on
\* the new pool at the running sum of the footprints of the groups met
\* before its own group.
C4_CompactionRenumbersEveryGroup ==
  [][\A p \in Pools : (WellFormed /\ CompactStep(p) /\ last'.result = "success") =>
       \A s \in SlotsOf(p) :
         slots'[s].pool = p /\ slots'[s].offset = RunningOffset(p, s)]_vars

\* C5: the footprints of the distinct slot groups of a pool never sum to
\* more than the pool's size, and the assertion of the compaction rule
\* never fails.
C5_UsedBytesWithinPool ==
  WellFormed =>
    /\ last.result # "assert"
    /\ \A p \in Pools : GroupBytes(p) <= poolSize[p]

\* C6: no step separates getrefs that share a (pool, offset); a merge with
\* first getref f leaves f where it is and re-emits every getref it moves,
\* together with the whole co-located group of that getref, on f's pool and
\* offset, so that f's group and every group accepted end at one place.
C6_MergeClosesGroups ==
  [][/\ \A a, b \in 1..Len(slots) :
          CoLocated(a, b) =>
            slots'[a].pool = slots'[b].pool /\ slots'[a].offset = slots'[b].offset
     /\ \A f \in 1..Len(slots) : (MergeStep(f) /\ last'.result = "success") =>
          /\ slots'[f] = slots[f]
          /\ Moved # {}
          /\ \A s \in Moved :
               /\ Group(s) \subseteq Moved
               /\ slots'[s].pool = slots'[f].pool
               /\ slots'[s].offset = slots'[f].offset]_vars

\* C6 witness: one merge redirected two getrefs, and three getrefs now share
\* the first getref's slot.
C6_Witness ==
  /\ last.rule = "merge" /\ last.result = "success"
  /\ Len(last.reusers) >= 2
  /\ Cardinality(Group(last.arg)) >= 3

\* C7: a successful merge lowers the number of distinct (pool, offset) pairs
\* and changes no pool size; a successful compaction lowers the size of its
\* pool, changes no other pool size and does not raise the number of
\* distinct pairs; nothing else changes the program.  The sum of the two
\* thus falls with every successful application and is never negative.
C7_RewritesDecrease ==
  [][/\ (slots' # slots \/ poolSize' # poolSize) => last'.result = "success"
     /\ (last'.rule = "merge" /\ last'.result = "success") =>
          /\ DistinctPairs' < DistinctPairs
          /\ poolSize' = poolSize
     /\ \A p \in Pools : (CompactStep(p) /\ last'.result = "success") =>
          /\ poolSize'[p] < poolSize[p]
          /\ \A q \in Pools \ {p} : poolSize'[q] = poolSize[q]
          /\ DistinctPairs' <= DistinctPairs
     /\ last'.result = "success" =>
          /\ DistinctPairs' + TotalPoolBytes' < DistinctPairs + TotalPoolBytes
          /\ DistinctPairs' + TotalPoolBytes' >= 0]_vars

\* C7 witness: a compaction has shrunk a pool in which getrefs share a slot.
C7_Witness ==
  /\ last.rule = "compact" /\ last.result = "success"
  /\ \E a, b \in SlotsOf(last.arg) : a # b /\ CoLocated(a, b)

\* A getref of the first getref's pool and footprint, as every getref that
\* takes part in a merge attempt on f is.
TakesPart(f, u) == slots[u].pool = slots[f].pool /\ slots[u].fp = slots[f].fp

\* C8: a merge attempt on a getref bound to a pool in which a getref without
\* load and store takes part does not stop the compiler, and leaves that
\* getref where it is.
C8_UnusedSlotIsSkipped ==
  [][\A f, u \in 1..Len(slots) :
       (MergeStep(f) /\ slots[f].pool # 0 /\ Unused(u) /\ TakesPart(f, u)) =>
         last'.result # "crash" /\ slots'[u] = slots[u]]_vars

\* C9: an application of the merge rule to a getref whose buffer operand is
\* not an alloc of its block reports no match: it neither rewrites the
\* program nor stops the compiler.
C9_MalformedSlotIsSkipped ==
  (last.rule = "merge" /\ slots[last.arg].pool = 0) =>
    last.result \notin {"success", "crash"}

\* C10: the merge rule reports no match for the one getref of a pool with a
\* single getref and never moves it; the compaction rule matches the pool
\* whenever its size exceeds the getref's footprint, and leaves a pool of
\* that footprint with the getref at offset 0.
C10_SingleSlotPool ==
  [][\A p \in Pools : \A s \in 1..Len(slots) :
       (WellFormed /\ SlotsOf(p) = {s}) =>
         /\ MergeMatch(s).result = "failure"
         /\ last'.rule = "merge" => slots'[s] = slots[s]
         /\ poolSize[p] > slots[s].fp => CompactionFires(p)
         /\ (CompactStep(p) /\ last'.result = "success") =>
              /\ poolSize[p] > slots[s].fp
              /\ poolSize'[p] = slots[s].fp
              /\ slots'[s].offset = 0]_vars


(***************************************************************************)
(* Properties of the live-range analysis                                   *)
(***************************************************************************)

Max(S) == CHOOSE x \in S : \A y \in S : y <= x

Members(list) == {list[i] : i \in 1..Len(list)}

\* The loads from and the stores into a getref.
Uses(s) ==
  {i \in 1..Len(ops) : ops[i].kind \in {"load", "store"} /\ ops[i].ref = s}

FirstUse(s) == Min(Uses(s))

LastUse(s) == Max(Uses(s))

\* The operations walked from the first to the last use of a getref.
Span(s) == {i \in 1..Len(ops) : FirstUse(s) <= i /\ i <= LastUse(s)}

AllUsed(list) == \A s \in Members(list) : Uses(s) # {}

\* The intervals of two getrefs have an operation in common: they overlap
\* or one lies inside the other.
SharesOperation(a, b) ==
  Uses(a) # {} /\ Uses(b) # {} /\ Span(a) \cap Span(b) # {}

\* Both operations are inside loops and have the same outermost loop.
SameLoopNest(i, j) ==
  ops[i].nest # 0 /\ ops[j].nest # 0 /\ ops[i].nest = ops[j].nest

\* The last use of one getref and the first use of the other share a loop
\* nest.
NearBoundaryInLoopNest(a, b) ==
  \/ SameLoopNest(LastUse(a), FirstUse(b))
  \/ SameLoopNest(LastUse(b), FirstUse(a))

\* checkLiveRangesIntersect has been called; the lists it was called on.
LiveRangeCall == last.rule = "checkLiveRangesIntersect"

CallFirst == last.arg[1]

CallSecond == last.arg[2]

\* C11: when no live range of one list overlaps or contains a live range of
\* the other, and the last use of a getref of one list and the first use of
\* a getref of the other are inside loops with the same outermost loop,
\* checkLiveRangesIntersect returns true, wherever the other extremities are.
C11_SharedLoopNestIntersects ==
  (/\ LiveRangeCall
   /\ AllUsed(CallFirst) /\ AllUsed(CallSecond)
   /\ \A a \in Members(CallFirst), b \in Members(CallSecond) :
        ~SharesOperation(a, b)
   /\ \E a \in Members(CallFirst), b \in Members(CallSecond) :
        NearBoundaryInLoopNest(a, b))
  => last.result = "true"

\* C12: when the interval from the first to the last use of some getref of
\* one list and that of some getref of the other list have an operation in
\* common (they overlap, or one contains the other, either way round),
\* checkLiveRangesIntersect returns true.
C12_OverlapMeansIntersect ==
  (/\ LiveRangeCall
   /\ \E a \in Members(CallFirst), b \in Members(CallSecond) :
        SharesOperation(a, b))
  => last.result = "true"

\* C16: on lists whose getrefs all have a load or a store,
\* checkLiveRangesIntersect returns for (first, second) what it returns for
\* (second, first).
C16_LiveRangeCheckIsSymmetric ==
  (LiveRangeCall /\ AllUsed(CallFirst) /\ AllUsed(CallSecond))
  => last.result = checkLiveRangesIntersect(CallSecond, CallFirst)

(***************************************************************************)
(* Properties of the dependency analysis                                   *)
(***************************************************************************)

RECURSIVE DependsOnLoadFrom(_, _)
\* The value v (the operation defining it; 0: a block argument) is a load
\* from a getref of S, or is computed by an operation other than a load from
\* a value that depends on such a load.
DependsOnLoadFrom(v, S) ==
  IF v = 0 THEN FALSE
  ELSE IF ops[v].kind = "load" THEN ops[v].ref \in S
  ELSE IF ops[v].kind = "other"
       THEN \E k \in 1..Len(ops[v].args) : DependsOnLoadFrom(ops[v].args[k], S)
  ELSE FALSE

StoresInto(S) == {i \in 1..Len(ops) : ops[i].kind = "store" /\ ops[i].ref \in S}

\* No store into a getref of T stores a value that depends on a load from a
\* getref of S.
NoStoreDependsOn(T, S) ==
  \A i \in StoresInto(T) : ~DependsOnLoadFrom(ops[i].args[1], S)

NoDuplicates(list) ==
  \A i, j \in 1..Len(list) : list[i] = list[j] => i = j

\* The walk from every store into a getref of T, against the list S,
\* processes no defining operation twice.
VisitsOnce(T, S) ==
  \A i \in StoresInto(Members(T)) :
    NoDuplicates(DependencyVisits(<<ops[i].args[1]>>, {}, S, <<>>))

UsesCall == last.rule = "getRefUsesAreMutuallyDisjoint"

\* C13: getRefUsesAreMutuallyDisjoint returns true exactly when no store
\* into a getref of either list stores a value that depends, through
\* operations other than loads, on a load from a getref of the other list;
\* the work queue of every store ends having processed each defining
\* operation at most once.
C13_UsesDisjointIffNoDependency ==
  UsesCall =>
    /\ (last.result = "true") <=>
         /\ NoStoreDependsOn(Members(CallSecond), Members(CallFirst))
         /\ NoStoreDependsOn(Members(CallFirst), Members(CallSecond))
    /\ last.result \in {"true", "false"}
    /\ VisitsOnce(CallSecond, CallFirst) /\ VisitsOnce(CallFirst, CallSecond)

\* C13 witness: the call found a store whose value reaches a load from the
\* other list only through an operation that is not a load.
C13_Witness ==
  /\ UsesCall
  /\ last.result = "false"
  /\ \E i \in StoresInto(Members(CallSecond)) :
       /\ ops[ops[i].args[1]].kind = "other"
       /\ DependsOnLoadFrom(ops[i].args[1], Members(CallFirst))

(***************************************************************************)
(* Properties of the pool size and of the layout                           *)
(***************************************************************************)

\* C14: getAllocGetRefTotalSize of a pool returns the sum of the footprints
\* of one getref per distinct offset among the getrefs of that pool,
\* whatever the getrefs of the other pools are.
C14_TotalSizeCountsEachOffsetOnce ==
  last.rule = "getAllocGetRefTotalSize" => last.result = GroupBytes(last.arg)

\* The byte ranges [offset, offset + footprint) of two getrefs do not meet.
BytesDisjoint(a, b) ==
  \/ slots[a].offset + slots[a].fp <= slots[b].offset
  \/ slots[b].offset + slots[b].fp <= slots[a].offset

\* C15: after any sequence of merge and compaction applications, two getrefs
\* of one pool that are not co-located occupy disjoint byte ranges.
C15_UnmergedSlotsStayDisjoint ==
  \A a, b \in 1..Len(slots) :
    (/\ slots[a].pool # 0
     /\ slots[a].pool = slots[b].pool
     /\ ~CoLocated(a, b))
    => BytesDisjoint(a, b)

====
